---- MODULE Spec2Model ----
(***************************************************************************)
(* Model of the command layer of the com0com port manager:                 *)
(*   src/src/core/command_manager.py  SetupCommandWorker, CommandManager   *)
(*   src/src/core/validators.py       ParameterValidator                   *)
(*   src/src/core/models.py           CommandResult, PortListParser        *)
(*                                                                         *)
(* Text is modelled as a tuple of one-character strings, so that strip,    *)
(* split, startswith and int() are computed as Python computes them.       *)
(*                                                                         *)
(* Threads.  SetupCommandWorker.run executes on the worker thread; every   *)
(* method of CommandManager executes on the control (GUI) thread.  The     *)
(* worker's command_finished signal is emitted from the worker thread and  *)
(* both of its connections (_on_command_finished, then the operation's     *)
(* callback) are queued to the control thread.  QThread.isRunning() stays  *)
(* true until run() has returned and the thread has been finalised, which  *)
(* is unordered with respect to the delivery of the queued slot calls.     *)
(***************************************************************************)
EXTENDS Integers, Sequences, FiniteSets, TLC

VARIABLES
    current_worker,    \* self.current_worker: id of the worker, or None
    workers,           \* the worker objects, by id
    port_pairs_cache,  \* self._port_pairs_cache
    timers,            \* pending QTimer.singleShot(50, get_driver_status)
    nextId,            \* number of workers started so far
    requested,         \* number of those started by a request or a timer
    emitted,           \* the signals the last step emitted, in order
    last,              \* what the last step was
    lastPayload,       \* argument of the latest port_list_updated signal
    call,              \* the function applied last and its arguments
    ret,               \* what that function returned
    heap,              \* the list objects, and who refers to which
    settings,          \* the timeout of the manager and of the configuration
    window             \* the main window's start-up connection and probe

\* The variables the steps of the manager and its workers leave alone.
others == <<call, ret, heap, settings, window>>

vars == <<current_worker, workers, port_pairs_cache, timers, nextId,
          requested, emitted, last, lastPayload, call, ret, heap,
          settings, window>>

----------------------------------------------------------------------------
(* Bounds *)

\* Number of workers started in one behaviour by requests and timers; the
\* follow-on refresh a completion handler starts is not counted.
MaxCmds == 2

\* Number of finished workers that a request or timer may replace while
\* their queued slot calls are still to be delivered.
MaxReplaced == 0

\* Worker ids: every requested command can start one follow-on command.
Ids == 1..(2 * MaxCmds)

\* "self.current_worker = None"
None == 0

----------------------------------------------------------------------------
(* Python text primitives *)

WS == {" ", "\n", "\t"}

Digits == {"0", "1", "2", "3", "4", "5", "6", "7", "8", "9"}

DigitVal(ch) ==
    CASE ch = "0" -> 0 [] ch = "1" -> 1 [] ch = "2" -> 2 [] ch = "3" -> 3
      [] ch = "4" -> 4 [] ch = "5" -> 5 [] ch = "6" -> 6 [] ch = "7" -> 7
      [] ch = "8" -> 8 [] ch = "9" -> 9

RECURSIVE LStrip(_)
LStrip(s) == IF s # <<>> /\ Head(s) \in WS THEN LStrip(Tail(s)) ELSE s

RECURSIVE RStrip(_)
RStrip(s) ==
    IF s # <<>> /\ s[Len(s)] \in WS THEN RStrip(SubSeq(s, 1, Len(s) - 1)) ELSE s

\* str.strip()
Strip(s) == RStrip(LStrip(s))

\* Index of the first occurrence of ch in s, 0 when absent.
RECURSIVE FindFrom(_, _, _)
FindFrom(s, ch, i) ==
    IF i > Len(s) THEN 0 ELSE IF s[i] = ch THEN i ELSE FindFrom(s, ch, i + 1)

Find(s, ch) == FindFrom(s, ch, 1)

\* str.split(sep) for a one-character separator: empty fields are kept.
RECURSIVE Split(_, _)
Split(s, ch) ==
    LET i == Find(s, ch)
    IN  IF i = 0 THEN <<s>>
        ELSE <<SubSeq(s, 1, i - 1)>> \o Split(SubSeq(s, i + 1, Len(s)), ch)

\* Length of the longest prefix of s without whitespace.
RECURSIVE WordLen(_)
WordLen(s) == IF s = <<>> \/ Head(s) \in WS THEN 0 ELSE 1 + WordLen(Tail(s))

\* str.split() without argument: runs of whitespace separate, no empty fields.
RECURSIVE SplitWS(_)
SplitWS(s) ==
    LET t == LStrip(s)
        n == WordLen(t)
    IN  IF t = <<>> THEN <<>>
        ELSE <<SubSeq(t, 1, n)>> \o SplitWS(SubSeq(t, n + 1, Len(t)))

\* str.startswith(p)
StartsWith(s, p) == Len(s) >= Len(p) /\ SubSeq(s, 1, Len(p)) = p

\* "sep".join(parts)
RECURSIVE Join(_, _)
Join(parts, sep) ==
    IF parts = <<>> THEN <<>>
    ELSE IF Len(parts) = 1 THEN parts[1]
    ELSE parts[1] \o sep \o Join(Tail(parts), sep)

RECURSIVE DigitsValue(_, _)
DigitsValue(s, acc) ==
    IF s = <<>> THEN acc
    ELSE IF Head(s) = "_" THEN DigitsValue(Tail(s), acc)
    ELSE DigitsValue(Tail(s), 10 * acc + DigitVal(Head(s)))

\* The optional sign int() accepts in front of the digits.
SignOf(s) == IF s # <<>> /\ Head(s) \in {"+", "-"} THEN Head(s) ELSE ""

\* The digit part int() accepts: digits, with single underscores allowed
\* between digits.
WellFormedDigits(body) ==
    /\ body # <<>>
    /\ \A i \in 1..Len(body) : body[i] \in Digits \cup {"_"}
    /\ body[1] \in Digits /\ body[Len(body)] \in Digits
    /\ \A i \in 1..(Len(body) - 1) : ~(body[i] = "_" /\ body[i + 1] = "_")

\* The result of int() for a sign and a digit part; ok = FALSE stands for
\* the ValueError.
SignedValue(sgn, body) ==
    IF WellFormedDigits(body)
    THEN [ok |-> TRUE,
          val |-> IF sgn = "-" THEN 0 - DigitsValue(body, 0)
                               ELSE DigitsValue(body, 0)]
    ELSE [ok |-> FALSE, val |-> 0]

\* int() of a text without surrounding whitespace.
PyIntStripped(s) == SignedValue(SignOf(s), IF SignOf(s) = "" THEN s ELSE Tail(s))

\* int(text): surrounding whitespace is ignored, one optional sign, then
\* the digits.
PyInt(text) == PyIntStripped(Strip(text))

\* str.lower() on one ASCII character
LowerChar(ch) ==
    CASE ch = "A" -> "a" [] ch = "B" -> "b" [] ch = "C" -> "c" [] ch = "D" -> "d"
      [] ch = "E" -> "e" [] ch = "F" -> "f" [] ch = "G" -> "g" [] ch = "H" -> "h"
      [] ch = "I" -> "i" [] ch = "J" -> "j" [] ch = "K" -> "k" [] ch = "L" -> "l"
      [] ch = "M" -> "m" [] ch = "N" -> "n" [] ch = "O" -> "o" [] ch = "P" -> "p"
      [] ch = "Q" -> "q" [] ch = "R" -> "r" [] ch = "S" -> "s" [] ch = "T" -> "t"
      [] ch = "U" -> "u" [] ch = "V" -> "v" [] ch = "W" -> "w" [] ch = "X" -> "x"
      [] ch = "Y" -> "y" [] ch = "Z" -> "z"
      [] OTHER -> ch

\* str.lower()
Lower(s) == [i \in 1..Len(s) |-> LowerChar(s[i])]

\* "sub in s"
Contains(s, sub) ==
    \E i \in 1..(Len(s) - Len(sub) + 1) : SubSeq(s, i, i + Len(sub) - 1) = sub

DigitChar(d) ==
    CASE d = 0 -> "0" [] d = 1 -> "1" [] d = 2 -> "2" [] d = 3 -> "3"
      [] d = 4 -> "4" [] d = 5 -> "5" [] d = 6 -> "6" [] d = 7 -> "7"
      [] d = 8 -> "8" [] d = 9 -> "9"

RECURSIVE NatStr(_)
NatStr(n) == IF n < 10 THEN <<DigitChar(n)>>
             ELSE Append(NatStr(n \div 10), DigitChar(n % 10))

\* str(n) and "{}".format(n) for an integer n
PyStr(n) == IF n < 0 THEN <<"-">> \o NatStr(0 - n) ELSE NatStr(n)

----------------------------------------------------------------------------
(* src/src/core/validators.py *)

Accept == [valid |-> TRUE, error |-> ""]

Reject(reason) == [valid |-> FALSE, error |-> reason]

\* ParameterValidator.validate_port_number, for an integer argument.
validate_port_number(value) ==
    IF 0 <= value /\ value <= 999
    THEN Accept
    ELSE Reject("Port number must be between 0 and 999")

\* Variant of validate_command_timeout whose range ends before 600.
validate_command_timeout_below_600(value) ==
    IF 1 <= value /\ value < 600
    THEN Accept
    ELSE Reject("Timeout must be between 1 and 600 seconds")

\* ParameterValidator.validate_command_timeout, for an integer argument.
validate_command_timeout(value) ==
    IF 1 <= value /\ value <= 600
    THEN Accept
    ELSE Reject("Timeout must be between 1 and 600 seconds")

\* valid_pins of validate_pin_assignment
valid_pins ==
    {<<"r", "r", "t", "s">>,
     <<"l", "r", "t", "s">>,
     <<"r", "d", "t", "r">>,
     <<"l", "d", "t", "r">>,
     <<"r", "o", "u", "t", "1">>,
     <<"l", "o", "u", "t", "1">>,
     <<"r", "o", "u", "t", "2">>,
     <<"l", "o", "u", "t", "2">>,
     <<"r", "o", "p", "e", "n">>,
     <<"l", "o", "p", "e", "n">>,
     <<"o", "n">>}

\* clean_value: the value without one leading "!"
CleanValue(value) ==
    IF StartsWith(value, <<"!">>) THEN Tail(value) ELSE value

\* ParameterValidator.validate_pin_assignment, for a string argument.
validate_pin_assignment(value) ==
    IF CleanValue(value) \in {<<"-">>, <<"*">>}
    THEN Accept
    ELSE IF CleanValue(value) \in valid_pins
    THEN Accept
    ELSE Reject("Invalid pin assignment")

\* re.match(r"^CNC[AB]\d+$", value): "$" also matches just before one
\* trailing newline.
validate_port_identifier(value) ==
    LET t == IF value # <<>> /\ value[Len(value)] = "\n"
             THEN SubSeq(value, 1, Len(value) - 1) ELSE value
    IN  IF /\ Len(t) >= 5
           /\ SubSeq(t, 1, 3) = <<"C", "N", "C">>
           /\ t[4] \in {"A", "B"}
           /\ \A i \in 5..Len(t) : t[i] \in Digits
        THEN Accept
        ELSE Reject("Port identifier must match pattern CNC[AB]<number>")

\* The check of one comma-separated token in validate_parameter_string.
ValidateParam(raw) ==
    LET param == Strip(raw)
        i     == Find(param, "=")
        key   == Strip(SubSeq(param, 1, i - 1))
        value == Strip(SubSeq(param, i + 1, Len(param)))
    IN  IF i = 0 THEN Reject("Invalid parameter format")
        ELSE IF key = <<>> THEN Reject("Parameter key cannot be empty")
        ELSE IF value = <<>> THEN Reject("Parameter value cannot be empty")
        ELSE Accept

RECURSIVE ValidateParams(_)
ValidateParams(parameters) ==
    IF parameters = <<>> THEN Accept
    ELSE IF ~ValidateParam(Head(parameters)).valid
         THEN ValidateParam(Head(parameters))
         ELSE ValidateParams(Tail(parameters))

\* ParameterValidator.validate_parameter_string
validate_parameter_string(param_string) ==
    IF param_string \in {<<"-">>, <<"*">>}
    THEN Accept
    ELSE ValidateParams(Split(param_string, ","))

----------------------------------------------------------------------------
(* src/src/core/models.py *)

EmptyDict == <<>>

DictSet(d, k, v) == [x \in (DOMAIN d) \cup {k} |-> IF x = k THEN v ELSE d[x]]

\* parameters[key.strip()] = value.strip() for a token with "=" at index
\* i; a token without "=" (i = 0) is skipped.
ParamEntry(parameters, param, i) ==
    IF i = 0 THEN parameters
    ELSE DictSet(parameters,
                 Strip(SubSeq(param, 1, i - 1)),
                 Strip(SubSeq(param, i + 1, Len(param))))

\* The body of the loop of _parse_parameters for one stripped token.
AddParam(parameters, param) == ParamEntry(parameters, param, Find(param, "="))

RECURSIVE ParseParamTokens(_, _)
ParseParamTokens(tokens, parameters) ==
    IF tokens = <<>> THEN parameters
    ELSE ParseParamTokens(Tail(tokens), AddParam(parameters, Strip(Head(tokens))))

\* PortListParser._parse_parameters
parse_parameters(params_str) ==
    ParseParamTokens(Split(params_str, ","), EmptyDict)

----------------------------------------------------------------------------
(* src/src/core/validators.py: ParameterBuilder.  A parameter map is the   *)
(* sequence of its items in insertion order; a value is a string, a        *)
(* boolean or None.                                                        *)

StrValue(text) == [t |-> "str", v |-> text]

BoolValue(b) == [t |-> "bool", v |-> b]

NoneValue == [t |-> "none", v |-> <<>>]

\* f"{value}", after "yes"/"no" has replaced a boolean
ValueText(value) ==
    IF value.t = "bool"
    THEN (IF value.v THEN <<"y", "e", "s">> ELSE <<"n", "o">>)
    ELSE value.v

\* "value is not None and value != ''"
ValueKept(value) == value.t # "none" /\ value # StrValue(<<>>)

\* The loop of build_parameter_string: param_pairs
RECURSIVE ParamPairs(_)
ParamPairs(items) ==
    IF items = <<>> THEN <<>>
    ELSE IF ValueKept(Head(items).value)
    THEN <<Head(items).key \o <<"=">> \o ValueText(Head(items).value)>>
             \o ParamPairs(Tail(items))
    ELSE ParamPairs(Tail(items))

\* ParameterBuilder.build_parameter_string
build_parameter_string(parameters) ==
    IF parameters = <<>> \/ ParamPairs(parameters) = <<>>
    THEN <<"-">>
    ELSE Join(ParamPairs(parameters), <<",">>)

\* ParameterBuilder.parse_parameter_string
parse_parameter_string(param_string) ==
    IF param_string \in {<<"-">>, <<"*">>}
    THEN EmptyDict
    ELSE ParseParamTokens(Split(param_string, ","), EmptyDict)

K_PortName == <<"P", "o", "r", "t", "N", "a", "m", "e">>

\* Port(identifier=...)
Port(identifier) ==
    [identifier |-> identifier, port_name |-> <<>>, parameters |-> EmptyDict]

\* PortPair(number, Port(f"CNCA{n}"), Port(f"CNCB{n}"), PortStatus.ACTIVE)
NewPair(pair_num) ==
    [number |-> pair_num,
     port_a |-> Port(<<"C", "N", "C", "A">> \o PyStr(pair_num)),
     port_b |-> Port(<<"C", "N", "C", "B">> \o PyStr(pair_num)),
     status |-> "Active"]

\* Index of the first pair with this number, 0 when there is none.
RECURSIVE PairIndex(_, _, _)
PairIndex(port_pairs, pair_num, i) ==
    IF i > Len(port_pairs) THEN 0
    ELSE IF port_pairs[i].number = pair_num THEN i
    ELSE PairIndex(port_pairs, pair_num, i + 1)

\* next((p for p in port_pairs if p.number == pair_num), None), and the
\* new pair appended when there is none.
EnsurePair(port_pairs, pair_num) ==
    IF PairIndex(port_pairs, pair_num, 1) = 0
    THEN Append(port_pairs, NewPair(pair_num))
    ELSE port_pairs

\* port.parameters = ...; port.port_name = port.parameters['PortName']
\* when that key is present.
WithParameters(port, params) ==
    [port EXCEPT !.parameters = params,
                 !.port_name = IF K_PortName \in DOMAIN params
                               THEN params[K_PortName] ELSE @]

\* port.identifier = port_id, and the parameters when the line has more
\* than the identifier.
UpdatePort(port, parts) ==
    IF Len(parts) > 1
    THEN WithParameters([port EXCEPT !.identifier = parts[1]],
                        parse_parameters(Join(Tail(parts), <<" ">>)))
    ELSE [port EXCEPT !.identifier = parts[1]]

\* port = pair.port_a if port_type == 'A' else pair.port_b, for the pair
\* at index idx.
SetPortAt(port_pairs, idx, parts) ==
    IF parts[1][4] = "A"
    THEN [port_pairs EXCEPT ![idx].port_a = UpdatePort(@, parts)]
    ELSE [port_pairs EXCEPT ![idx].port_b = UpdatePort(@, parts)]

\* The body of the loop of parse_port_list for one line that starts with
\* "CNC"; pair_num is the value of int(port_id[4:]).
SetPortData(port_pairs, parts, pair_num) ==
    SetPortAt(EnsurePair(port_pairs, pair_num),
              PairIndex(EnsurePair(port_pairs, pair_num), pair_num, 1),
              parts)

\* The loop of parse_port_list; raised = TRUE stands for the exception of
\* int(port_id[4:]) (ValueError), which leaves the function.
RECURSIVE ParseLines(_, _)

\* A line that starts with "CNC", once int(port_id[4:]) is evaluated.
ParseNumbered(parts, num, rest, port_pairs) ==
    IF ~num.ok
    THEN [raised |-> TRUE, pairs |-> <<>>]
    ELSE ParseLines(rest, SetPortData(port_pairs, parts, num.val))

\* parts = line.split(); port_id = parts[0]
ParseCncLine(parts, rest, port_pairs) ==
    ParseNumbered(parts, PyInt(SubSeq(parts[1], 5, Len(parts[1]))), rest, port_pairs)

\* One stripped line: empty lines and lines not starting with "CNC" are
\* passed over.
ParseLine(line, rest, port_pairs) ==
    IF line = <<>> \/ ~StartsWith(line, <<"C", "N", "C">>)
    THEN ParseLines(rest, port_pairs)
    ELSE ParseCncLine(SplitWS(line), rest, port_pairs)

ParseLines(lines, port_pairs) ==
    IF lines = <<>> THEN [raised |-> FALSE, pairs |-> port_pairs]
    ELSE ParseLine(Strip(Head(lines)), Tail(lines), port_pairs)

\* sorted(port_pairs, key=lambda p: p.number): stable insertion sort.
RECURSIVE InsertSorted(_, _)
InsertSorted(sortedPairs, p) ==
    IF sortedPairs = <<>> THEN <<p>>
    ELSE IF p.number < Head(sortedPairs).number THEN <<p>> \o sortedPairs
    ELSE <<Head(sortedPairs)>> \o InsertSorted(Tail(sortedPairs), p)

RECURSIVE SortPairs(_, _)
SortPairs(port_pairs, acc) ==
    IF port_pairs = <<>> THEN acc
    ELSE SortPairs(Tail(port_pairs), InsertSorted(acc, Head(port_pairs)))

\* Variant of the end of parse_port_list that returns the pairs in the
\* order of their first line.
SortedResult_unsorted(r) == r

\* PortListParser.parse_port_list
SortedResult(r) ==
    IF r.raised THEN r
    ELSE [raised |-> FALSE, pairs |-> SortPairs(r.pairs, <<>>)]

parse_port_list(output) ==
    SortedResult(ParseLines(Split(Strip(output), "\n"), <<>>))

MsgExitCode == <<"C", "o", "m", "m", "a", "n", "d", " ", "f", "a", "i", "l", "e", "d", " ", "w", "i", "t", "h", " ", "e", "x", "i", "t", " ", "c", "o", "d", "e", " ">>

MsgUnknown == <<"U", "n", "k", "n", "o", "w", "n", " ", "e", "r", "r", "o", "r", " ", "o", "c", "c", "u", "r", "r", "e", "d">>

\* CommandResult.get_error_message
get_error_message(result) ==
    IF result.success THEN <<>>
    ELSE IF result.error # <<>> THEN result.error
    ELSE IF result.return_code # 0
         THEN MsgExitCode \o PyStr(result.return_code)
    ELSE MsgUnknown

----------------------------------------------------------------------------
(* src/src/core/command_manager.py: SetupCommandWorker *)

DEFAULT_COMMAND_TIMEOUT == 30

MsgTimedOut ==
    <<"C", "o", "m", "m", "a", "n", "d", " ", "t", "i", "m", "e", "d", " ", "o", "u", "t", " ", "a", "f", "t", "e", "r", " ">>
    \o PyStr(DEFAULT_COMMAND_TIMEOUT) \o
    <<" ", "s", "e", "c", "o", "n", "d", "s">>

MsgSetupcNotFound ==
    <<"s", "e", "t", "u", "p", "c", ".", "e", "x", "e", " ", "n", "o", "t", " ", "f", "o", "u", "n", "d", ".", " ", "P", "l", "e", "a", "s", "e", " ", "e", "n", "s", "u", "r", "e", " ", "c", "o", "m", "0", "c", "o", "m", " ", "i", "s", " ", "i", "n", "s", "t", "a", "l", "l", "e", "d", " ", "a", "n", "d", " ", "s", "e", "t", "u", "p", "c", ".", "e", "x", "e", " ", "i", "s", " ", "i", "n", " ", "y", "o", "u", "r", " ", "P", "A", "T", "H", ".">>

MsgUnexpected ==
    <<"U", "n", "e", "x", "p", "e", "c", "t", "e", "d", " ", "e", "r", "r", "o", "r", ":", " ">>

\* CommandResult(success, output, error, return_code)
CommandResult(success, output, error, return_code) ==
    [success |-> success, output |-> output, error |-> error,
     return_code |-> return_code]

\* "self.result = None"
NoResult == CommandResult(FALSE, <<>>, <<>>, 0)

\* What the external process can print on stdout for the list command.
O_Pair0 ==
    <<"C", "N", "C", "A", "0", " ", "P", "o", "r", "t", "N", "a", "m", "e", "=", "C", "O", "M", "8", "\n", "C", "N", "C", "B", "0", " ", "P", "o", "r", "t", "N", "a", "m", "e", "=", "C", "O", "M", "9", "\n">>

O_Malformed == <<"C", "N", "C", "A", "\n">>

ListOutputs == {<<>>, O_Pair0, O_Malformed}

\* What the external process prints on stderr when it fails.
E_Denied == <<"A", "c", "c", "e", "s", "s", " ", "d", "e", "n", "i", "e", "d">>

E_NotFound == <<"D", "r", "i", "v", "e", "r", " ", "N", "o", "t", " ", "F", "o", "u", "n", "d">>

Stderrs == {<<>>, E_Denied, E_NotFound}

\* Exit codes of the external process.
ExitCodes == {0, 1}

Stdouts(command) == IF command = "LIST" THEN ListOutputs ELSE {<<>>}

\* The ways subprocess.run can end in SetupCommandWorker.run: the process
\* exits (with its output on stdout when it succeeds and what it wrote on
\* stderr, if anything, when it fails), the timeout expires, the executable is missing,
\* or another exception is raised.
Outcomes(command) ==
    [kind : {"exit"}, rc : {0}, out : Stdouts(command), err : {<<>>}]
    \cup [kind : {"exit"}, rc : ExitCodes \ {0}, out : {<<>>}, err : Stderrs]
    \cup [kind : {"timeout", "not_found", "exception"}, rc : {0}, out : {<<>>}, err : {<<>>}]

\* Variant of the worker's result in which an expired timeout is reported
\* with the code of the other exceptions.
RunResult_timeout_as_exception(o) ==
    CASE o.kind = "exit"      -> CommandResult(o.rc = 0, o.out, o.err, o.rc)
      [] o.kind = "timeout"   -> CommandResult(FALSE, <<>>, MsgTimedOut, -3)
      [] o.kind = "not_found" -> CommandResult(FALSE, <<>>, MsgSetupcNotFound, -2)
      [] o.kind = "exception" -> CommandResult(FALSE, <<>>, MsgUnexpected, -3)

\* The CommandResult built by SetupCommandWorker.run for one outcome.
RunResult(o) ==
    CASE o.kind = "exit"      -> CommandResult(o.rc = 0, o.out, o.err, o.rc)
      [] o.kind = "timeout"   -> CommandResult(FALSE, <<>>, MsgTimedOut, -1)
      [] o.kind = "not_found" -> CommandResult(FALSE, <<>>, MsgSetupcNotFound, -2)
      [] o.kind = "exception" -> CommandResult(FALSE, <<>>, MsgUnexpected, -3)

\* QThread.isRunning(): true from start() until the thread has finished.
IsRunning(ws, c) == c \in DOMAIN ws /\ ws[c].thread \in {"exec", "posted"}

\* Variant of the worker in which the callback of the operation is called
\* first, as if it had been connected before _on_command_finished.
NewWorker_callback_first(command, callback) ==
    [command |-> command, callback |-> callback, thread |-> "exec",
     result |-> NoResult, deliv |-> 1, completed |-> 0, errs |-> 0,
     cancelled |-> FALSE, stopped |-> FALSE]

\* SetupCommandWorker(command, ...) followed by the two connect() calls
\* and start().
NewWorker(command, callback) ==
    [command |-> command, callback |-> callback, thread |-> "exec",
     result |-> NoResult, deliv |-> 0, completed |-> 0, errs |-> 0,
     cancelled |-> FALSE, stopped |-> FALSE]

----------------------------------------------------------------------------
(* src/src/core/command_manager.py: CommandManager                         *)
(*                                                                         *)
(* A method of the manager is an operator from the manager's state m to    *)
(* the state it leaves: cw is self.current_worker, ws the worker objects,  *)
(* cache is self._port_pairs_cache, timers the pending QTimer.singleShot   *)
(* calls, em the signals emitted so far by the running handler, spawned    *)
(* the workers it has started, payload the argument of the latest          *)
(* port_list_updated signal.                                               *)

Ev(sig, kind, arg) == [sig |-> sig, kind |-> kind, arg |-> arg]

Emit(m, ev) == [m EXCEPT !.em = Append(@, ev)]

\* self.error_occurred.emit(message).  The message is kept as its class:
\* "busy" (another command is running), "validation" (an argument was
\* rejected), "failed" (a command failed), "parse" (the list output could
\* not be parsed).
EmitError(m, kind) == Emit(m, Ev("error_occurred", kind, <<>>))

\* self.port_list_updated.emit(port_pairs)
EmitPortList(m, port_pairs) ==
    [Emit(m, Ev("port_list_updated", "", port_pairs)) EXCEPT !.payload = port_pairs]

\* Variant of _execute_command_async without the isRunning() check.
execute_command_async_unchecked(m, command, callback) ==
    [m EXCEPT !.cw = m.next + 1,
              !.next = m.next + 1,
              !.spawned = @ + 1,
              !.ws = ((m.next + 1) :> NewWorker(command, callback)) @@ m.ws]

\* Variant of _execute_command_async without the return after the busy
\* error: the command is started all the same.
execute_command_async_no_return(m, command, callback) ==
    execute_command_async_unchecked(
        IF m.cw # None /\ IsRunning(m.ws, m.cw) THEN EmitError(m, "busy") ELSE m,
        command, callback)

\* CommandManager._execute_command_async
execute_command_async(m, command, callback) ==
    IF m.cw # None /\ IsRunning(m.ws, m.cw)
    THEN EmitError(m, "busy")
    ELSE [m EXCEPT !.cw = m.next + 1,
                   !.next = m.next + 1,
                   !.spawned = @ + 1,
                   !.ws = ((m.next + 1) :> NewWorker(command, callback)) @@ m.ws]

\* Variant of _on_command_finished that reports only failed commands.
on_command_finished_failures_only(m, result) ==
    IF ~result.success THEN EmitError(m, "failed") ELSE m

\* CommandManager._on_command_finished
on_command_finished(m, result) ==
    LET m1 == Emit(m, Ev("command_completed", "", result))
    IN  IF ~result.success
        THEN EmitError(m1, "failed")
        ELSE m1

\* CommandManager.list_ports
list_ports(m) == execute_command_async(m, "LIST", "list_ports")

\* CommandManager.get_driver_status
get_driver_status(m) == execute_command_async(m, "LIST", "get_driver_status")

\* QTimer.singleShot(50, self.get_driver_status)
single_shot_get_driver_status(m) == [m EXCEPT !.timers = @ + 1]

\* Variant of the try block of handle_list_result that answers a parse
\* failure with an empty list instead of an error.
StoreParsed_empty_on_failure(m, parsed) ==
    IF parsed.raised
    THEN EmitPortList([m EXCEPT !.cache = <<>>], <<>>)
    ELSE EmitPortList([m EXCEPT !.cache = parsed.pairs], parsed.pairs)

\* The try block of handle_list_result, given what parse_port_list did.
StoreParsed(m, parsed) ==
    IF parsed.raised
    THEN EmitError(m, "parse")
    ELSE EmitPortList([m EXCEPT !.cache = parsed.pairs], parsed.pairs)

\* Variant of handle_list_result that drops the cached list when the list
\* command has failed.
handle_list_result_clearing(m, result) ==
    IF result.success
    THEN StoreParsed(m, parse_port_list(result.output))
    ELSE EmitError([m EXCEPT !.cache = <<>>], "failed")

\* list_ports.handle_list_result
handle_list_result(m, result) ==
    IF result.success
    THEN StoreParsed(m, parse_port_list(result.output))
    ELSE EmitError(m, "failed")

\* Variant of handle_install_result that refreshes after a failure too.
handle_install_result_always_refresh(m, result) ==
    IF result.success
    THEN list_ports(m)
    ELSE list_ports(EmitError(m, "failed"))

\* install_port_pair.handle_install_result
handle_install_result(m, result) ==
    IF result.success
    THEN list_ports(m)
    ELSE EmitError(m, "failed")

\* remove_port_pair.handle_remove_result
handle_remove_result(m, result) ==
    IF result.success
    THEN list_ports(m)
    ELSE EmitError(m, "failed")

\* change_port_config.handle_change_result
handle_change_result(m, result) ==
    IF result.success
    THEN list_ports(m)
    ELSE EmitError(m, "failed")

S_not_found == <<"n", "o", "t", " ", "f", "o", "u", "n", "d">>

MsgSetupcMissing == <<"s", "e", "t", "u", "p", "c", ".", "e", "x", "e", " ", "n", "o", "t", " ", "f", "o", "u", "n", "d">>

\* DriverInfo(status, install_path, error_message)
DriverInfo(status, install_path, error_message) ==
    [status |-> status, install_path |-> install_path,
     error_message |-> error_message]

\* Variant of the handler of get_driver_status that looks for "not found"
\* without lowering the case of stderr.
handle_status_result_case_sensitive(m, result) ==
    Emit(m, Ev("driver_status_changed", "",
               IF result.success
               THEN DriverInfo("Installed", "setupc_path", <<>>)
               ELSE IF Contains(result.error, S_not_found)
               THEN DriverInfo("Not Installed", "", MsgSetupcMissing)
               ELSE DriverInfo("Error", "", get_error_message(result))))

\* get_driver_status.handle_list_result
handle_status_result(m, result) ==
    LET driver_info ==
          IF result.success
          THEN DriverInfo("Installed", "setupc_path", <<>>)
          ELSE IF Contains(Lower(result.error), S_not_found)
          THEN DriverInfo("Not Installed", "", MsgSetupcMissing)
          ELSE DriverInfo("Error", "", get_error_message(result))
    IN  Emit(m, Ev("driver_status_changed", "", driver_info))

\* preinstall_driver.handle_preinstall_result
handle_preinstall_result(m, result) ==
    IF result.success THEN single_shot_get_driver_status(m) ELSE m

\* update_driver.handle_update_result
handle_update_result(m, result) ==
    IF result.success THEN single_shot_get_driver_status(m) ELSE m

\* reload_driver.handle_reload_result
handle_reload_result(m, result) ==
    IF result.success THEN list_ports(m) ELSE m

\* Variant of handle_uninstall_result that empties the list whether or not
\* the command succeeded.
handle_uninstall_result_always_clears(m, result) ==
    IF result.success
    THEN single_shot_get_driver_status(EmitPortList([m EXCEPT !.cache = <<>>], <<>>))
    ELSE EmitPortList([m EXCEPT !.cache = <<>>], <<>>)

\* Variant of handle_uninstall_result that clears the cache without
\* emitting port_list_updated.
handle_uninstall_result_silent(m, result) ==
    IF result.success
    THEN single_shot_get_driver_status([m EXCEPT !.cache = <<>>])
    ELSE m

\* uninstall_driver.handle_uninstall_result
handle_uninstall_result(m, result) ==
    IF result.success
    THEN single_shot_get_driver_status(EmitPortList([m EXCEPT !.cache = <<>>], <<>>))
    ELSE m

\* disable_all_ports.handle_disable_result
handle_disable_result(m, result) ==
    IF result.success THEN list_ports(m) ELSE m

\* enable_all_ports.handle_enable_result
handle_enable_result(m, result) ==
    IF result.success THEN list_ports(m) ELSE m

\* clean_inf_files.handle_infclean_result
handle_infclean_result(m, result) ==
    IF result.success THEN m
    ELSE EmitError(m, "failed")

\* list_friendly_names.handle_listfnames_result
handle_listfnames_result(m, result) ==
    IF ~result.success
    THEN EmitError(m, "failed")
    ELSE m

\* check_busy_names.handle_busynames_result
handle_busynames_result(m, result) ==
    IF ~result.success
    THEN EmitError(m, "failed")
    ELSE m

\* update_friendly_names.handle_updatefnames_result
handle_updatefnames_result(m, result) ==
    IF result.success
    THEN list_ports(m)
    ELSE EmitError(m, "failed")

\* The callback connected to the worker's command_finished signal by the
\* operation that started it.
RunCallback(m, callback, result) ==
    CASE callback = "list_ports"            -> handle_list_result(m, result)
      [] callback = "install_port_pair"     -> handle_install_result(m, result)
      [] callback = "remove_port_pair"      -> handle_remove_result(m, result)
      [] callback = "change_port_config"    -> handle_change_result(m, result)
      [] callback = "get_driver_status"     -> handle_status_result(m, result)
      [] callback = "preinstall_driver"     -> handle_preinstall_result(m, result)
      [] callback = "update_driver"         -> handle_update_result(m, result)
      [] callback = "reload_driver"         -> handle_reload_result(m, result)
      [] callback = "uninstall_driver"      -> handle_uninstall_result(m, result)
      [] callback = "disable_all_ports"     -> handle_disable_result(m, result)
      [] callback = "enable_all_ports"      -> handle_enable_result(m, result)
      [] callback = "clean_inf_files"       -> handle_infclean_result(m, result)
      [] callback = "list_friendly_names"   -> handle_listfnames_result(m, result)
      [] callback = "check_busy_names"      -> handle_busynames_result(m, result)
      [] callback = "update_friendly_names" -> handle_updatefnames_result(m, result)

\* CommandManager.install_port_pair; pair_number is <<>> for None and <<n>>
\* for the integer n.
install_port_pair(m, pair_number, params_a, params_b) ==
    IF params_a # <<"-">> /\ ~validate_parameter_string(params_a).valid
    THEN EmitError(m, "validation")
    ELSE IF params_b # <<"-">> /\ ~validate_parameter_string(params_b).valid
    THEN EmitError(m, "validation")
    ELSE IF pair_number # <<>> /\ ~validate_port_number(pair_number[1]).valid
    THEN EmitError(m, "validation")
    ELSE execute_command_async(m,
             IF pair_number # <<>> THEN "INSTALL_NUMBERED" ELSE "INSTALL_AUTO",
             "install_port_pair")

\* CommandManager.remove_port_pair
remove_port_pair(m, pair_number) ==
    IF ~validate_port_number(pair_number).valid
    THEN EmitError(m, "validation")
    ELSE execute_command_async(m, "REMOVE", "remove_port_pair")

\* CommandManager.change_port_config
change_port_config(m, port_id, parameters) ==
    IF ~validate_port_identifier(port_id).valid
    THEN EmitError(m, "validation")
    ELSE IF ~validate_parameter_string(parameters).valid
    THEN EmitError(m, "validation")
    ELSE execute_command_async(m, "CHANGE", "change_port_config")

\* CommandManager.preinstall_driver
preinstall_driver(m) == execute_command_async(m, "PREINSTALL", "preinstall_driver")

\* CommandManager.update_driver
update_driver(m) == execute_command_async(m, "UPDATE", "update_driver")

\* CommandManager.reload_driver
reload_driver(m) == execute_command_async(m, "RELOAD", "reload_driver")

\* CommandManager.uninstall_driver
uninstall_driver(m) == execute_command_async(m, "UNINSTALL", "uninstall_driver")

\* CommandManager.disable_all_ports
disable_all_ports(m) == execute_command_async(m, "DISABLE_ALL", "disable_all_ports")

\* CommandManager.enable_all_ports
enable_all_ports(m) == execute_command_async(m, "ENABLE_ALL", "enable_all_ports")

\* CommandManager.clean_inf_files
clean_inf_files(m) == execute_command_async(m, "INFCLEAN", "clean_inf_files")

\* CommandManager.list_friendly_names
list_friendly_names(m) == execute_command_async(m, "LISTFNAMES", "list_friendly_names")

\* Variant of check_busy_names that tests the pattern without strip().
check_busy_names_no_strip(m, pattern) ==
    IF pattern = <<>>
    THEN EmitError(m, "validation")
    ELSE execute_command_async(m, "BUSYNAMES", "check_busy_names")

\* CommandManager.check_busy_names
check_busy_names(m, pattern) ==
    IF Strip(pattern) = <<>>
    THEN EmitError(m, "validation")
    ELSE execute_command_async(m, "BUSYNAMES", "check_busy_names")

\* CommandManager.update_friendly_names
update_friendly_names(m) == execute_command_async(m, "UPDATEFNAMES", "update_friendly_names")

\* CommandManager.cancel_current_command.  QThread.terminate() followed by
\* wait(3000) either ends the thread (stopped) or leaves it running; in the
\* latter case self.current_worker.kill() is called, which QThread does not
\* have: the AttributeError leaves the method and the worker keeps running.
\* A thread ended inside subprocess.run emits nothing; one ended after
\* command_finished.emit has its two slot calls queued already.
cancel_current_command(m, stopped) ==
    IF m.cw # None /\ IsRunning(m.ws, m.cw)
    THEN IF stopped
         THEN [m EXCEPT !.ws[m.cw].cancelled = TRUE,
                        !.ws[m.cw].stopped = TRUE,
                        !.ws[m.cw].thread =
                            IF @ = "exec" THEN "terminated" ELSE "finished"]
         ELSE [m EXCEPT !.ws[m.cw].cancelled = TRUE]
    ELSE m

\* CommandManager.is_busy
is_busy == current_worker # None /\ IsRunning(workers, current_worker)

----------------------------------------------------------------------------
(* Inputs of the operations *)

\* pair_number arguments: None, the ends of the valid range, and the first
\* value outside at each end.
PairNumbers == {-1, 0, 999, 1000}

OptPairNumbers == {<<>>} \cup {<<n>> : n \in PairNumbers}

\* Parameter strings: default, well-formed, empty value.
ParamStrings == {<<"-">>, <<"a", "=", "1">>, <<"a", "=">>}

PortIds == {<<"C", "N", "C", "A", "0">>, <<"C", "N", "C", "X", "0">>}

Patterns == {<<>>, <<" ">>, <<"C", "O", "M", "?">>}

----------------------------------------------------------------------------
(* The state machine *)

\* No function has been applied on its own.
NoCall == [fn |-> "none", args |-> <<>>]

\* The objects after CommandManager.__init__: the empty list
\* self._port_pairs_cache refers to.  pairs[p] is the value of PortPair
\* object p and lists[o] the references list object o holds; cache,
\* delivered and returned are the lists the manager, the observers of
\* port_list_updated and the caller of get_cached_port_pairs refer to (0
\* for none); stored is the value the manager last assigned to the cache.
Heap0 ==
    [pairs |-> <<>>, lists |-> <<<<>>>>, cache |-> 1, delivered |-> 0,
     returned |-> 0, stored |-> <<>>]

\* The manager's state at the start of a step on the control thread.
\* The timeouts after construction: CommandManager.__init__ sets
\* self.timeout = DEFAULT_COMMAND_TIMEOUT, and ApplicationConfig() has
\* command_timeout 30.
Settings0 ==
    [timeout |-> DEFAULT_COMMAND_TIMEOUT, command_timeout |-> 30]

\* The main window before MainWindow.__init__ has run: connected says
\* whether _on_initial_port_list_loaded is connected to port_list_updated,
\* probe what became of the get_driver_status() that slot calls; dialog
\* whether the Driver Operations dialog is shown, clicked the operation
\* button last clicked in it and confirmed whether the user answered Yes to
\* every prompt of that click.
Window0 ==
    [connected |-> FALSE, probe |-> "none", dialog |-> FALSE, clicked |-> "",
     confirmed |-> FALSE]

M0 ==
    [cw |-> current_worker, ws |-> workers, cache |-> port_pairs_cache,
     timers |-> timers, next |-> nextId, em |-> <<>>, spawned |-> 0,
     payload |-> lastPayload]

\* A worker object is kept while the manager references it or a queued
\* slot call of its signal is still to be delivered.
Retire(ws, cw) ==
    [c \in {d \in DOMAIN ws :
                d = cw \/ (ws[d].deliv < 2 /\ ws[d].thread # "terminated")}
        |-> ws[c]]

\* Number of error_occurred signals in em that report a failed command.
RECURSIVE FailureErrors(_)
FailureErrors(em) ==
    IF em = <<>> THEN 0
    ELSE (IF Head(em).sig = "error_occurred" /\ Head(em).kind \in {"failed", "parse"}
          THEN 1 ELSE 0) + FailureErrors(Tail(em))

\* The command_completed signals among the signals em.
CompletedEvents(em) ==
    Cardinality({i \in 1..Len(em) : em[i].sig = "command_completed"})

HasBusyError(em) ==
    \E i \in 1..Len(em) : em[i].sig = "error_occurred" /\ em[i].kind = "busy"

Label(act, op, cmd, success, spawned, outcome, errs) ==
    [act |-> act, op |-> op, cmd |-> cmd, success |-> success,
     spawned |-> spawned, outcome |-> outcome, errs |-> errs]

\* The step leaves the manager in state m.
Commit(m, l) ==
    /\ current_worker' = m.cw
    /\ workers' = Retire(m.ws, m.cw)
    /\ port_pairs_cache' = m.cache
    /\ timers' = m.timers
    /\ nextId' = m.next
    /\ emitted' = m.em
    /\ lastPayload' = m.payload
    /\ last' = l
    /\ UNCHANGED others

\* The bounds on what the environment starts: the workers it starts, and
\* the finished workers it replaces while their queued calls are pending.
WithinBounds(m) ==
    m.spawned > 0 =>
        /\ requested < MaxCmds
        /\ Cardinality({c \in DOMAIN Retire(m.ws, m.cw) \ {m.cw} :
                            ~IsRunning(m.ws, c)}) <= MaxReplaced

\* An operation is requested on the control thread and leaves state m.
\* The label names the operation when a worker was started for it.
Request(op, m) ==
    /\ WithinBounds(m)
    /\ requested' = requested + m.spawned
    /\ Commit(m, Label("request", IF m.spawned > 0 THEN op ELSE "",
                    IF m.spawned > 0 THEN m.cw ELSE None, FALSE, m.spawned,
                    IF m.spawned > 0 THEN "accepted"
                    ELSE IF HasBusyError(m.em) THEN "busy" ELSE "invalid",
                    0))

Init ==
    /\ current_worker = None
    /\ workers = <<>>
    /\ port_pairs_cache = <<>>
    /\ timers = 0
    /\ nextId = 0
    /\ requested = 0
    /\ emitted = <<>>
    /\ lastPayload = <<>>
    /\ last = Label("init", "", None, FALSE, 0, "", 0)
    /\ call = NoCall
    /\ ret = <<>>
    /\ heap = Heap0
    /\ settings = Settings0
    /\ window = Window0

ListPorts == Request("list_ports", list_ports(M0))

\* The requests with arguments: every argument is tried; arguments that
\* leave the manager in the same state give the same step.
InstallPortPair ==
    \E m \in {install_port_pair(M0, pair_number, params_a, params_b) :
                 pair_number \in OptPairNumbers, params_a \in ParamStrings,
                 params_b \in ParamStrings} :
        Request("install_port_pair", m)

RemovePortPair ==
    \E m \in {remove_port_pair(M0, pair_number) : pair_number \in PairNumbers} :
        Request("remove_port_pair", m)

ChangePortConfig ==
    \E m \in {change_port_config(M0, port_id, parameters) :
                 port_id \in PortIds, parameters \in ParamStrings} :
        Request("change_port_config", m)

GetDriverStatus == Request("get_driver_status", get_driver_status(M0))

PreinstallDriver == Request("preinstall_driver", preinstall_driver(M0))

UpdateDriver == Request("update_driver", update_driver(M0))

ReloadDriver == Request("reload_driver", reload_driver(M0))

UninstallDriver == Request("uninstall_driver", uninstall_driver(M0))

DisableAllPorts == Request("disable_all_ports", disable_all_ports(M0))

EnableAllPorts == Request("enable_all_ports", enable_all_ports(M0))

CleanInfFiles == Request("clean_inf_files", clean_inf_files(M0))

ListFriendlyNames == Request("list_friendly_names", list_friendly_names(M0))

CheckBusyNames ==
    \E m \in {check_busy_names(M0, pattern) : pattern \in Patterns} :
        Request("check_busy_names", m)

UpdateFriendlyNames == Request("update_friendly_names", update_friendly_names(M0))

\* A QTimer.singleShot(50, self.get_driver_status) expires.
TimerFires ==
    /\ timers > 0
    /\ LET m == get_driver_status([M0 EXCEPT !.timers = @ - 1])
       IN  /\ WithinBounds(m)
           /\ requested' = requested + m.spawned
           /\ Commit(m, Label("timer", IF m.spawned > 0 THEN "get_driver_status" ELSE "",
                           IF m.spawned > 0 THEN m.cw ELSE None, FALSE,
                           m.spawned,
                           IF m.spawned > 0 THEN "accepted" ELSE "busy", 0))

\* SetupCommandWorker.run on the worker thread: subprocess.run returns or
\* raises, the result is stored and command_finished is emitted, which
\* queues the two slot calls to the control thread.
RunCompletes ==
    \E c \in DOMAIN workers :
        /\ workers[c].thread = "exec"
        /\ \E o \in Outcomes(workers[c].command) :
              workers' = [workers EXCEPT ![c].thread = "posted",
                                         ![c].result = RunResult(o)]
        /\ emitted' = <<>>
        /\ last' = Label("run", workers[c].callback, c,
                         workers'[c].result.success, 0, "", 0)
        /\ UNCHANGED <<current_worker, port_pairs_cache, timers, nextId,
                       requested, lastPayload, others>>

\* run() has returned and the worker thread is finalised: isRunning()
\* becomes false.
ThreadFinishes ==
    \E c \in DOMAIN workers :
        /\ workers[c].thread = "posted"
        /\ workers' = [workers EXCEPT ![c].thread = "finished"]
        /\ emitted' = <<>>
        /\ last' = Label("thread_finished", workers[c].callback, c,
                         workers[c].result.success, 0, "", 0)
        /\ UNCHANGED <<current_worker, port_pairs_cache, timers, nextId,
                       requested, lastPayload, others>>

\* cancel_current_command() is called on the control thread (the main
\* window does so when it is closed while a command runs).
CancelCurrentCommand ==
    \E stopped \in BOOLEAN :
        /\ Commit(cancel_current_command(M0, stopped),
                  Label("cancel", "", current_worker, FALSE, 0,
                        IF ~is_busy THEN "idle"
                        ELSE IF stopped THEN "stopped" ELSE "attribute_error", 0))
        /\ UNCHANGED requested

\* The control thread delivers the first queued slot call of worker c:
\* _on_command_finished(result).  Queued calls are delivered in the order
\* they were posted, so those of an older worker come first.
OnCommandFinished ==
    \E c \in DOMAIN workers :
        /\ workers[c].thread \in {"posted", "finished"}
        /\ workers[c].deliv = 0
        /\ \A d \in DOMAIN workers :
               d < c => workers[d].deliv = 2 \/ workers[d].thread = "terminated"
        /\ LET r  == workers[c].result
               m  == on_command_finished(M0, r)
               n  == workers[c].errs + FailureErrors(m.em)
               m1 == [m EXCEPT !.ws[c].deliv = 1,
                               !.ws[c].completed = @ + CompletedEvents(m.em),
                               !.ws[c].errs = n]
           IN  /\ Commit(m1, Label("on_command_finished", workers[c].callback, c,
                                   r.success, m.spawned, "", n))
               /\ UNCHANGED requested

\* The control thread delivers the second queued slot call of worker c:
\* the callback of the operation that started it.
Callback ==
    \E c \in DOMAIN workers :
        /\ workers[c].deliv = 1
        /\ LET r  == workers[c].result
               m  == RunCallback(M0, workers[c].callback, r)
               n  == workers[c].errs + FailureErrors(m.em)
               m1 == [m EXCEPT !.ws[c].deliv = 2,
                               !.ws[c].completed = @ + CompletedEvents(m.em),
                               !.ws[c].errs = n]
           IN  /\ Commit(m1, Label("callback", workers[c].callback, c,
                                   r.success, m.spawned, "", n))
               /\ UNCHANGED requested

Next ==
    \/ ListPorts
    \/ InstallPortPair
    \/ RemovePortPair
    \/ ChangePortConfig
    \/ GetDriverStatus
    \/ PreinstallDriver
    \/ UpdateDriver
    \/ ReloadDriver
    \/ UninstallDriver
    \/ DisableAllPorts
    \/ EnableAllPorts
    \/ CleanInfFiles
    \/ ListFriendlyNames
    \/ CheckBusyNames
    \/ UpdateFriendlyNames
    \/ TimerFires
    \/ CancelCurrentCommand
    \/ RunCompletes
    \/ ThreadFinishes
    \/ OnCommandFinished
    \/ Callback

Spec == Init /\ [][Next]_vars

\* The labels a step of worker c may carry.
StepLabels(act, c) ==
    {Label(act, workers[c].callback, c, s, sp, "", n) :
        s \in BOOLEAN, sp \in 0..1, n \in 0..3}

\* The four steps the program's scheduling guarantees, each given by the
\* guard of its action and the label the action leaves in last.  Fairness
\* is stated on these, whose enabling condition is the guard alone;
\* StepsAreLabelled states that they are exactly the steps of the actions.
RunCompletesStep ==
    \E c \in DOMAIN workers :
        /\ workers[c].thread = "exec"
        /\ last' \in StepLabels("run", c)

ThreadFinishesStep ==
    \E c \in DOMAIN workers :
        /\ workers[c].thread = "posted"
        /\ last' \in StepLabels("thread_finished", c)

OnCommandFinishedStep ==
    \E c \in DOMAIN workers :
        /\ workers[c].thread \in {"posted", "finished"}
        /\ workers[c].deliv = 0
        /\ \A d \in DOMAIN workers :
               d < c => workers[d].deliv = 2 \/ workers[d].thread = "terminated"
        /\ last' \in StepLabels("on_command_finished", c)

CallbackStep ==
    \E c \in DOMAIN workers :
        /\ workers[c].deliv = 1
        /\ last' \in StepLabels("callback", c)

\* The scheduling the program relies on: a started process ends or is cut
\* off by the timeout (subprocess.run is given one), a thread whose run()
\* has returned is finalised, and the event loop of the control thread
\* delivers the queued slot calls.  Requests and timers are not fair: the
\* user may stop asking.
LiveSpec ==
    /\ Spec
    /\ WF_last(RunCompletesStep)
    /\ WF_last(ThreadFinishesStep)
    /\ WF_last(OnCommandFinishedStep)
    /\ WF_last(CallbackStep)

\* The fair steps are exactly the steps of the four actions.
StepsAreLabelled ==
    [][/\ RunCompletes <=> RunCompletesStep
       /\ ThreadFinishes <=> ThreadFinishesStep
       /\ OnCommandFinished <=> OnCommandFinishedStep
       /\ Callback <=> CallbackStep]_vars

----------------------------------------------------------------------------
(* The port cache as objects: lists of PortPair objects, and who holds a   *)
(* reference to which list.                                                *)

MaxLists == 6

MaxPairs == 4

\* What parse_port_list has returned to the handler of a successful list.
ParsedLists == {<<>>, <<NewPair(0)>>, <<NewPair(0), NewPair(1)>>}

\* The references to n objects allocated after the first k.
NewRefs(k, n) == [i \in 1..n |-> k + i]

\* A new list object with the given references.
NewList(h, refs) == [h EXCEPT !.lists = Append(@, refs)]

\* The list object parse_port_list returns: new PortPair objects and a new
\* list of them.
NewParsedList(h, port_pairs) ==
    NewList([h EXCEPT !.pairs = @ \o port_pairs],
            NewRefs(Len(h.pairs), Len(port_pairs)))

\* self.port_list_updated.emit(the list object o): the signal is declared
\* pyqtSignal(list), whose argument travels as a list of its own that
\* holds the same PortPair objects.
EmitList(h, o) ==
    [NewList(h, h.lists[o]) EXCEPT !.delivered = Len(h.lists) + 1]

\* The PortPair values a list object refers to.
Content(h, o) == [i \in 1..Len(h.lists[o]) |-> h.pairs[h.lists[o][i]]]

\* handle_list_result: self._port_pairs_cache = port_pairs;
\* self.port_list_updated.emit(port_pairs)
StoreAndEmit(h, port_pairs) ==
    [EmitList(NewParsedList(h, port_pairs), Len(h.lists) + 1)
        EXCEPT !.cache = Len(h.lists) + 1, !.stored = port_pairs]

\* handle_uninstall_result: self._port_pairs_cache = [];
\* self.port_list_updated.emit([])
ClearAndEmit(h) ==
    [EmitList(NewList(h, <<>>), Len(h.lists) + 1)
        EXCEPT !.cache = Len(h.lists) + 1, !.stored = <<>>]

\* get_cached_port_pairs: return self._port_pairs_cache.copy(), a new list
\* of the same PortPair objects.
get_cached_port_pairs(h) ==
    [NewList(h, h.lists[h.cache]) EXCEPT !.returned = Len(h.lists) + 1]

\* A holder of list object o modifies it: removes its elements, or changes
\* the element at index i (i = 0: none) by setting a port name.
ModifyList(h, o, i) ==
    IF i = 0
    THEN [h EXCEPT !.lists[o] = <<>>]
    ELSE [h EXCEPT !.pairs[h.lists[o][i]].port_a.port_name = <<"X">>]

\* A step on the objects; the manager's commands are not involved.
HeapStep(op, h) ==
    /\ Len(h.lists) <= MaxLists
    /\ Len(h.pairs) <= MaxPairs
    /\ heap' = h
    /\ call' = [fn |-> op, args |-> <<>>]
    /\ UNCHANGED <<current_worker, workers, port_pairs_cache, timers, nextId,
                   requested, emitted, last, lastPayload, ret, settings,
                   window>>

\* The handler of a successful list command stores and emits the parsed
\* list.
HandleListResult ==
    \E port_pairs \in ParsedLists : HeapStep("list", StoreAndEmit(heap, port_pairs))

\* The handler of a successful uninstall command.
HandleUninstallResult == HeapStep("uninstall", ClearAndEmit(heap))

\* A reader calls get_cached_port_pairs().
GetCachedPortPairs == HeapStep("get", get_cached_port_pairs(heap))

\* The reader modifies the list it was returned.
ReaderModifies ==
    /\ heap.returned # 0
    /\ \E i \in 0..Len(heap.lists[heap.returned]) :
          HeapStep("reader_modifies", ModifyList(heap, heap.returned, i))

\* An observer modifies the list it was delivered with port_list_updated.
ObserverModifies ==
    /\ heap.delivered # 0
    /\ \E i \in 0..Len(heap.lists[heap.delivered]) :
          HeapStep("observer_modifies", ModifyList(heap, heap.delivered, i))

HeapNext ==
    \/ HandleListResult
    \/ HandleUninstallResult
    \/ GetCachedPortPairs
    \/ ReaderModifies
    \/ ObserverModifies

HeapSpec == Init /\ [][HeapNext]_vars

----------------------------------------------------------------------------
(* The command timeout: the manager's field and the configuration's.       *)

\* Timeouts given to the setters and found in imported files: the ends of
\* the range 1..600 with their neighbours, and the default.
TimeoutValues == {-1, 0, 1, 30, 600, 601}

\* CommandManager.set_timeout
set_timeout(s, timeout) ==
    IF timeout > 0 THEN [s EXCEPT !.timeout = timeout] ELSE s

\* ConfigManager.set_command_timeout
set_command_timeout(s, timeout) ==
    IF timeout > 0 /\ s.command_timeout # timeout
    THEN [s EXCEPT !.command_timeout = timeout]
    ELSE s

\* ConfigManager.update_config(command_timeout=value)
update_config(s, value) ==
    IF s.command_timeout # value THEN [s EXCEPT !.command_timeout = value] ELSE s

\* ApplicationConfig.from_dict: a new record with the defaults, then every
\* key of data; data is <<>> or <<value of "command_timeout">>.
from_dict(data) ==
    IF data = <<>> THEN Settings0.command_timeout ELSE data[1]

\* ConfigManager.import_config of a readable file with the given data.
import_config(s, data) == [s EXCEPT !.command_timeout = from_dict(data)]

\* A step on the timeouts; the manager's commands are not involved.
SettingsStep(fn, args, s) ==
    /\ settings' = s
    /\ call' = [fn |-> fn, args |-> args]
    /\ UNCHANGED <<current_worker, workers, port_pairs_cache, timers, nextId,
                   requested, emitted, last, lastPayload, ret, heap, window>>

SetTimeout ==
    \E timeout \in TimeoutValues :
        SettingsStep("set_timeout", timeout, set_timeout(settings, timeout))

SetCommandTimeout ==
    \E timeout \in TimeoutValues :
        SettingsStep("set_command_timeout", timeout,
                     set_command_timeout(settings, timeout))

UpdateConfig ==
    \E value \in TimeoutValues :
        SettingsStep("update_config", value, update_config(settings, value))

ImportConfig ==
    \E data \in {<<>>} \cup {<<value>> : value \in TimeoutValues} :
        SettingsStep("import_config", data, import_config(settings, data))

\* MainWindow.__init__:
\* self.command_manager.set_timeout(self.config_manager.get_command_timeout())
ApplyConfiguredTimeout ==
    SettingsStep("MainWindow.__init__", settings.command_timeout,
                 set_timeout(settings, settings.command_timeout))

SettingsNext ==
    \/ SetTimeout
    \/ SetCommandTimeout
    \/ UpdateConfig
    \/ ImportConfig
    \/ ApplyConfiguredTimeout

SettingsSpec == Init /\ [][SettingsNext]_vars

----------------------------------------------------------------------------
(* src/src/gui/main_window.py: the start-up of the main window.            *)

HasPortListUpdated(em) ==
    \E i \in 1..Len(em) : em[i].sig = "port_list_updated"

\* A step of the main window leaves the manager in state m and the window
\* in state w.
CommitWindow(m, l, w) ==
    /\ current_worker' = m.cw
    /\ workers' = Retire(m.ws, m.cw)
    /\ port_pairs_cache' = m.cache
    /\ timers' = m.timers
    /\ nextId' = m.next
    /\ emitted' = m.em
    /\ lastPayload' = m.payload
    /\ last' = l
    /\ window' = w
    /\ UNCHANGED <<call, ret, heap, settings>>

\* MainWindow.__init__: port_list_updated is connected to
\* _on_initial_port_list_loaded with a single-shot connection, then
\* refresh_port_list() calls list_ports().
MainWindowInit ==
    /\ window = Window0
    /\ nextId = 0
    /\ LET m == list_ports(M0)
       IN  /\ requested' = requested + m.spawned
           /\ CommitWindow(m, Label("request", "list_ports", m.cw, FALSE,
                                    m.spawned, "accepted", 0),
                           [window EXCEPT !.connected = TRUE])

\* MainWindow._on_initial_port_list_loaded, called inside emit() by the
\* first port_list_updated the handler has emitted, if it has.
on_initial_port_list_loaded(m, w) ==
    IF w.connected /\ HasPortListUpdated(m.em) THEN get_driver_status(m) ELSE m

\* What the slot leaves of the window: the connection is released by its
\* first call, and the outcome of get_driver_status() is kept.
WindowAfter(m, w) ==
    IF w.connected /\ HasPortListUpdated(m.em)
    THEN [w EXCEPT !.connected = FALSE,
                   !.probe = IF HasBusyError(on_initial_port_list_loaded(m, w).em)
                             THEN "busy" ELSE "accepted"]
    ELSE w

\* The callback of worker c runs on the control thread, its signals
\* calling the slots of the main window.
WindowCallback(c, m) ==
    LET m1 == on_initial_port_list_loaded(m, window)
        n  == workers[c].errs + FailureErrors(m.em)
    IN  /\ requested' = requested + m1.spawned
        /\ CommitWindow([m1 EXCEPT !.ws[c].deliv = 2,
                                   !.ws[c].completed = @ + CompletedEvents(m.em),
                                   !.ws[c].errs = n],
                        Label("callback", workers[c].callback, c,
                              workers[c].result.success, m1.spawned, "", n),
                        WindowAfter(m, window))

StartupCallback ==
    \E c \in DOMAIN workers :
        /\ workers[c].deliv = 1
        /\ WindowCallback(c, RunCallback(M0, workers[c].callback, workers[c].result))

StartupNext ==
    \/ MainWindowInit
    \/ RunCompletes
    \/ ThreadFinishes
    \/ OnCommandFinished
    \/ StartupCallback

StartupSpec == Init /\ [][StartupNext]_vars

----------------------------------------------------------------------------
(* src/src/gui/dialogs/driver_ops_dialog.py: the Driver Operations dialog. *)

DriverOperations ==
    {"preinstall_driver", "update_driver", "reload_driver", "uninstall_driver"}

Replies == {"Yes", "No"}

\* confirm_preinstall, confirm_update, confirm_reload, confirm_uninstall:
\* whether the user has answered Yes to the prompt, and for uninstall to
\* the second prompt, which is shown after a Yes to the first.
Confirmed(op, reply, final_reply) ==
    reply = "Yes" /\ (op = "uninstall_driver" => final_reply = "Yes")

\* The method of the manager that show_driver_operations_dialog connects
\* to the operation's signal.
DriverOperation(m, op) ==
    CASE op = "preinstall_driver" -> preinstall_driver(m)
      [] op = "update_driver"     -> update_driver(m)
      [] op = "reload_driver"     -> reload_driver(m)
      [] op = "uninstall_driver"  -> uninstall_driver(m)

\* A request made by the main window or its dialog, leaving the manager in
\* state m and the window in state w.
WindowRequest(op, m, w) ==
    /\ WithinBounds(m)
    /\ requested' = requested + m.spawned
    /\ CommitWindow(m, Label("request", IF m.spawned > 0 THEN op ELSE "",
                             IF m.spawned > 0 THEN m.cw ELSE None, FALSE,
                             m.spawned,
                             IF m.spawned > 0 THEN "accepted"
                             ELSE IF HasBusyError(m.em) THEN "busy" ELSE "none",
                             0),
                    w)

\* MainWindow.show_driver_operations_dialog: the dialog is created, its
\* signals are connected and the status is requested if no command runs.
ShowDriverOperationsDialog ==
    /\ ~window.dialog
    /\ WindowRequest("get_driver_status",
                     IF ~is_busy THEN get_driver_status(M0) ELSE M0,
                     [window EXCEPT !.dialog = TRUE])

\* An operation button is clicked: clicked calls signal.emit, and the
\* signal calls its slots in the order they were connected: first the
\* dialog's confirm_<operation>, connected by setup_connections when the
\* dialog was created, which asks the user, then the manager's method,
\* connected by show_driver_operations_dialog.
ClickOperation ==
    /\ window.dialog
    /\ \E op \in DriverOperations, reply \in Replies, final_reply \in Replies :
          WindowRequest(op, DriverOperation(M0, op),
                        [window EXCEPT !.clicked = op,
                                       !.confirmed = Confirmed(op, reply, final_reply)])

DialogNext ==
    \/ ShowDriverOperationsDialog
    \/ ClickOperation
    \/ RunCompletes
    \/ ThreadFinishes
    \/ OnCommandFinished
    \/ Callback
    \/ TimerFires

DialogSpec == Init /\ [][DialogNext]_vars

----------------------------------------------------------------------------
(* The functions of the program applied on their own: the command line an  *)
(* accepted operation builds and the argument vector the worker splits it  *)
(* into, the CommandResult the worker builds, and the parser.              *)

\* constants.py: DEFAULT_SETUPC_PATH
DEFAULT_SETUPC_PATH ==
    <<"C", ":", "\\", "P", "r", "o", "g", "r", "a", "m", " ", "F", "i", "l", "e", "s", " ", "(", "x", "8", "6", ")", "\\", "c", "o", "m", "0", "c", "o", "m", "\\", "s", "e", "t", "u", "p", "c", ".", "e", "x", "e">>

\* A path given to set_setupc_path that has no blank in it.
PlainSetupcPath == <<"s", "e", "t", "u", "p", "c", ".", "e", "x", "e">>

\* The values of self.setupc_path: the default and one that was set.
SetupcPaths == {DEFAULT_SETUPC_PATH, PlainSetupcPath}

W_install == <<"i", "n", "s", "t", "a", "l", "l">>

W_remove == <<"r", "e", "m", "o", "v", "e">>

W_change == <<"c", "h", "a", "n", "g", "e">>

W_list == <<"l", "i", "s", "t">>

W_busynames == <<"b", "u", "s", "y", "n", "a", "m", "e", "s">>

SP == <<" ">>

\* SETUPC_COMMANDS["INSTALL_NUMBERED"].format(pair_number, params_a, params_b)
INSTALL_NUMBERED(pair_number, params_a, params_b) ==
    W_install \o SP \o PyStr(pair_number) \o SP \o params_a \o SP \o params_b

\* SETUPC_COMMANDS["INSTALL_AUTO"].format(params_a, params_b)
INSTALL_AUTO(params_a, params_b) ==
    W_install \o SP \o params_a \o SP \o params_b

\* SETUPC_COMMANDS["REMOVE"].format(pair_number)
REMOVE(pair_number) == W_remove \o SP \o PyStr(pair_number)

\* SETUPC_COMMANDS["CHANGE"].format(port_id, parameters)
CHANGE(port_id, parameters) == W_change \o SP \o port_id \o SP \o parameters

\* SETUPC_COMMANDS["BUSYNAMES"].format(pattern)
BUSYNAMES(pattern) == W_busynames \o SP \o pattern

\* full_command = f"{self.setupc_path} {command}"
full_command(setupc_path, command) == setupc_path \o SP \o command

\* The first argument of subprocess.run: self.command.split()
Argv(command) == SplitWS(command)

\* Parameter strings validate_parameter_string accepts, one of them with a
\* blank after the comma.
AcceptedParams ==
    {<<"-">>, <<"a", "=", "1">>, <<"a", "=", "1", ",", " ", "b", "=", "2">>}

\* Patterns check_busy_names accepts, one of them with a blank in it.
AcceptedPatterns == {<<"C", "O", "M", "?">>, <<"C", "O", "M", " ", "1">>}

\* Exit statuses of the external process, and the return code
\* subprocess.run reports for one: on the platform of setupc.exe the exit
\* code of a process is an unsigned value (of 32 bits; 16 are kept here, a
\* width the model checker's integers can hold).
ExitStatuses == {-3, -2, -1, 0, 1}

ExitCodeOf(status) == status % 65536

\* Lines of the output of the list command: well-formed ones, ones that
\* start with CNC and have no or no numeric suffix, one with a leading
\* zero, one with another letter than A or B, and other text.
OutputLines ==
    {<<"C", "N", "C", "A", "0", " ", "P", "o", "r", "t", "N", "a", "m", "e", "=", "C", "O", "M", "8">>,
     <<"C", "N", "C", "B", "0", " ", "P", "o", "r", "t", "N", "a", "m", "e", "=", "C", "O", "M", "9">>,
     <<"C", "N", "C">>, <<"C", "N", "C", "A">>, <<"C", "N", "C", "A", "x">>,
     <<"C", "N", "C", "A", "0", "1">>, <<"C", "N", "C", "X", "0">>,
     <<"T", "h", "e", "r", "e", " ", "a", "r", "e", " ", "n", "o", " ", "p", "o", "r", "t", "s">>}

\* Outputs of up to two lines.
OutputTexts ==
    {<<>>} \cup {l \o <<"\n">> : l \in OutputLines}
           \cup {l1 \o <<"\n">> \o l2 \o <<"\n">> : l1 \in OutputLines, l2 \in OutputLines}

P_COM8_EmuBR == <<"P", "o", "r", "t", "N", "a", "m", "e", "=", "C", "O", "M", "8", ",", "E", "m", "u", "B", "R", "=", "y", "e", "s">>

P_COM9 == <<"P", "o", "r", "t", "N", "a", "m", "e", "=", "C", "O", "M", "9">>

P_COMhash == <<"P", "o", "r", "t", "N", "a", "m", "e", "=", "C", "O", "M", "#">>

P_EmuBR_no == <<"E", "m", "u", "B", "R", "=", "n", "o">>

P_COM7_spaced == <<"P", "o", "r", "t", "N", "a", "m", "e", " ", "=", " ", "C", "O", "M", "7">>

\* Well-formed port lines "CNC{A|B}<n> <params>", as side, number and
\* parameter text: those of two pairs, a second line for a side that has no
\* PortName, and one with blanks around "=".
PortLines ==
    {[side |-> "A", n |-> 0, params |-> P_COM8_EmuBR],
     [side |-> "B", n |-> 0, params |-> P_COM9],
     [side |-> "A", n |-> 1, params |-> P_COMhash],
     [side |-> "B", n |-> 1, params |-> P_COMhash],
     [side |-> "A", n |-> 0, params |-> P_EmuBR_no],
     [side |-> "B", n |-> 1, params |-> P_COM7_spaced]}

MaxLines == 4

\* The sequences of one to MaxLines well-formed lines.
PortLineSeqs == UNION {[1..k -> PortLines] : k \in 1..MaxLines}

\* The text of a port line.
PortLineText(l) == <<"C", "N", "C", l.side>> \o PyStr(l.n) \o SP \o l.params

\* The output text made of the lines ls, each ended by a newline.
RECURSIVE LinesText(_)
LinesText(ls) ==
    IF ls = <<>> THEN <<>>
    ELSE PortLineText(Head(ls)) \o <<"\n">> \o LinesText(Tail(ls))

\* Keys and values of parameter maps: strings that are empty, plain, with
\* a comma or with a leading blank, the booleans and None.
ParamKeys == {<<"a">>, <<"b">>}

ParamValues ==
    {StrValue(<<>>), StrValue(<<"1">>), StrValue(<<"x", ",", "y">>),
     StrValue(<<" ", "x">>), BoolValue(TRUE), BoolValue(FALSE), NoneValue}

\* The parameter maps of up to two items.
ParamMaps ==
    {<<>>}
    \cup {<<[key |-> k, value |-> v]>> : k \in ParamKeys, v \in ParamValues}
    \cup {m \in {<<[key |-> k1, value |-> v1], [key |-> k2, value |-> v2]>> :
                    k1 \in ParamKeys, k2 \in ParamKeys,
                    v1 \in ParamValues, v2 \in ParamValues} :
             m[1].key # m[2].key}

\* Integers given to validate_port_number and to validate_command_timeout:
\* the whole range with its neighbours.
PortNumberInputs == (-2)..1001

TimeoutInputs == (-1)..602

\* Strings given to validate_pin_assignment: each pin, plain and inverted,
\* the two special values, plain and with "!", and strings that are no pin.
PinInputs ==
    valid_pins \cup {<<"!">> \o pin : pin \in valid_pins}
    \cup {<<"-">>, <<"*">>, <<"!", "-">>, <<"!", "*">>, <<>>, <<"!">>,
          <<"!", "b", "o", "g", "u", "s">>, <<"b", "o", "g", "u", "s">>, <<"!", "!", "r", "r", "t", "s">>, <<"R", "R", "T", "S">>}

\* The function fn is applied to args and returns result; the manager is
\* not involved.  Each application starts from the initial state.
Applied(fn, args, result) ==
    /\ call = NoCall
    /\ call' = [fn |-> fn, args |-> args]
    /\ ret' = result
    /\ UNCHANGED <<current_worker, workers, port_pairs_cache, timers, nextId,
                   requested, emitted, last, lastPayload, heap, settings,
                   window>>

\* The arguments of an argument-vector computation: the configured path,
\* the words of the template and the values the user supplied.
ArgvArgs(setupc_path, words, values) ==
    [path |-> setupc_path, words |-> words, values |-> values]

\* install_port_pair accepts its arguments and the worker splits the
\* command line built for them.
ApplyInstall ==
    \E setupc_path \in SetupcPaths, pair_number \in OptPairNumbers,
       params_a \in AcceptedParams, params_b \in AcceptedParams :
        /\ install_port_pair(M0, pair_number, params_a, params_b).spawned = 1
        /\ Applied("argv",
                   ArgvArgs(setupc_path, <<W_install>>,
                            (IF pair_number = <<>> THEN <<>>
                             ELSE <<PyStr(pair_number[1])>>)
                                \o <<params_a, params_b>>),
                   Argv(full_command(setupc_path,
                           IF pair_number = <<>>
                           THEN INSTALL_AUTO(params_a, params_b)
                           ELSE INSTALL_NUMBERED(pair_number[1], params_a, params_b))))

\* remove_port_pair
ApplyRemove ==
    \E setupc_path \in SetupcPaths, pair_number \in PairNumbers :
        /\ remove_port_pair(M0, pair_number).spawned = 1
        /\ Applied("argv",
                   ArgvArgs(setupc_path, <<W_remove>>, <<PyStr(pair_number)>>),
                   Argv(full_command(setupc_path, REMOVE(pair_number))))

\* change_port_config
ApplyChange ==
    \E setupc_path \in SetupcPaths, port_id \in PortIds,
       parameters \in AcceptedParams :
        /\ change_port_config(M0, port_id, parameters).spawned = 1
        /\ Applied("argv",
                   ArgvArgs(setupc_path, <<W_change>>, <<port_id, parameters>>),
                   Argv(full_command(setupc_path, CHANGE(port_id, parameters))))

\* check_busy_names
ApplyBusyNames ==
    \E setupc_path \in SetupcPaths, pattern \in AcceptedPatterns :
        /\ check_busy_names(M0, pattern).spawned = 1
        /\ Applied("argv",
                   ArgvArgs(setupc_path, <<W_busynames>>, <<pattern>>),
                   Argv(full_command(setupc_path, BUSYNAMES(pattern))))

\* list_ports
ApplyList ==
    \E setupc_path \in SetupcPaths :
        /\ list_ports(M0).spawned = 1
        /\ Applied("argv", ArgvArgs(setupc_path, <<W_list>>, <<>>),
                   Argv(full_command(setupc_path, W_list)))

\* SetupCommandWorker.run builds the CommandResult of one way
\* subprocess.run can end.
ApplyRun ==
    \E kind \in {"exit", "timeout", "not_found", "exception"},
       status \in ExitStatuses, out \in {<<>>, O_Pair0}, err \in Stderrs :
        /\ kind = "exit" \/ (status = 0 /\ out = <<>> /\ err = <<>>)
        /\ Applied("run",
                   [kind |-> kind, status |-> status, out |-> out, err |-> err],
                   RunResult([kind |-> kind, rc |-> ExitCodeOf(status),
                              out |-> out, err |-> err]))

\* PortListParser.parse_port_list is applied to an output text.
ApplyParsePortList ==
    \E output \in OutputTexts :
        Applied("parse_port_list", output, parse_port_list(output))

\* PortListParser.parse_port_list is applied to a text of well-formed
\* lines.
ApplyParseWellFormed ==
    \E ls \in PortLineSeqs :
        Applied("parse_well_formed", ls, parse_port_list(LinesText(ls)))

\* A parameter map is built into a string and the string parsed back.
ApplyParseBuild ==
    \E parameters \in ParamMaps :
        Applied("parse_build", parameters,
                [built |-> build_parameter_string(parameters),
                 parsed |-> parse_parameter_string(build_parameter_string(parameters))])

\* ParameterValidator.validate_port_number is applied to an integer.
ApplyValidatePortNumber ==
    \E value \in PortNumberInputs :
        Applied("validate_port_number", value, validate_port_number(value))

\* ParameterValidator.validate_command_timeout is applied to an integer.
ApplyValidateCommandTimeout ==
    \E value \in TimeoutInputs :
        Applied("validate_command_timeout", value, validate_command_timeout(value))

\* ParameterValidator.validate_pin_assignment is applied to a string.
ApplyValidatePinAssignment ==
    \E value \in PinInputs :
        Applied("validate_pin_assignment", value, validate_pin_assignment(value))

PureNext ==
    \/ ApplyInstall
    \/ ApplyRemove
    \/ ApplyChange
    \/ ApplyBusyNames
    \/ ApplyList
    \/ ApplyRun
    \/ ApplyParsePortList
    \/ ApplyParseWellFormed
    \/ ApplyParseBuild
    \/ ApplyValidatePortNumber
    \/ ApplyValidateCommandTimeout
    \/ ApplyValidatePinAssignment

PureSpec == Init /\ [][PureNext]_vars

----------------------------------------------------------------------------
(* Properties *)

ErrorEvents(em) == {i \in 1..Len(em) : em[i].sig = "error_occurred"}

RunningWorkers == {c \in DOMAIN workers : IsRunning(workers, c)}

\* What a step that starts no worker and changes nothing of the manager
\* leaves alone.
ManagerUnchanged ==
    /\ nextId' = nextId
    /\ workers' = workers
    /\ current_worker' = current_worker
    /\ port_pairs_cache' = port_pairs_cache
    /\ timers' = timers

\* C1: whatever the interleaving of requests, completions and timers, at
\* most one worker is running at any time.
C1_AtMostOneRunning == Cardinality(RunningWorkers) <= 1

\* A second worker is running after the first one has completed.
C1_Witness == nextId >= 2 /\ is_busy

\* C2: a request that passes validation while a worker is running emits
\* exactly the busy error, starts no worker, queues nothing, and leaves the
\* current worker and the cached port list unchanged.
C2_BusyRejected ==
    [][(last'.act = "request" /\ is_busy /\ last'.outcome # "invalid")
         => /\ emitted' = <<Ev("error_occurred", "busy", <<>>)>>
            /\ ManagerUnchanged]_vars

\* A request was rejected because a worker is running.
C2_Witness == last.act = "request" /\ last.outcome = "busy" /\ is_busy

\* C3: once the completion notification of a worker is being handled on the
\* control thread, the manager is no longer busy on account of that worker.
C3_IdleWhenCompletionHandled ==
    \A c \in DOMAIN workers : workers[c].deliv > 0 => ~IsRunning(workers, c)

\* C4: the completion handler of a successful install starts exactly one
\* list command.
C4_InstallRefreshesOnce ==
    (last.act = "callback" /\ last.op = "install_port_pair" /\ last.success)
        => /\ last.spawned = 1
           /\ workers[current_worker].callback = "list_ports"

RefreshingOps ==
    {"remove_port_pair", "change_port_config", "reload_driver",
     "enable_all_ports", "disable_all_ports", "update_friendly_names"}

\* C5: after remove, change, reload, enable all, disable all or update
\* friendly names has completed with success, a list command has been
\* started by its completion handler.
C5_SuccessRefreshes ==
    (last.act = "callback" /\ last.op \in RefreshingOps /\ last.success)
        => /\ last.spawned = 1
           /\ workers[current_worker].callback = "list_ports"

\* C6: when an install, remove or change command has failed, its completion
\* handler emits an error, starts no list command and leaves the cached
\* port list unchanged.
C6_FailureNoRefresh ==
    [][(/\ last'.act = "callback"
        /\ last'.op \in {"install_port_pair", "remove_port_pair", "change_port_config"}
        /\ ~last'.success)
         => /\ ErrorEvents(emitted') # {}
            /\ nextId' = nextId
            /\ current_worker' = current_worker
            /\ port_pairs_cache' = port_pairs_cache]_vars

\* The completion handler of a failed install has run.
C6_Witness ==
    last.act = "callback" /\ last.op = "install_port_pair" /\ ~last.success

\* The arguments an operation of the manager rejects.
InstallArgsInvalid(pair_number, params_a, params_b) ==
    \/ ~validate_parameter_string(params_a).valid
    \/ ~validate_parameter_string(params_b).valid
    \/ pair_number # <<>> /\ ~validate_port_number(pair_number[1]).valid

ChangeArgsInvalid(port_id, parameters) ==
    \/ ~validate_port_identifier(port_id).valid
    \/ ~validate_parameter_string(parameters).valid

\* What a request with rejected arguments does.
ValidationRejected ==
    /\ emitted' = <<Ev("error_occurred", "validation", <<>>)>>
    /\ ManagerUnchanged

\* What an operation given rejected arguments leaves: the manager as it
\* was, and one validation error emitted.
RejectedFrom(m) == m = EmitError(M0, "validation")

\* In the current state, each operation rejects each of its invalid
\* arguments.
InvalidArgsRejected ==
    /\ \A pair_number \in OptPairNumbers, params_a, params_b \in ParamStrings :
          InstallArgsInvalid(pair_number, params_a, params_b)
              => RejectedFrom(install_port_pair(M0, pair_number, params_a, params_b))
    /\ \A pair_number \in PairNumbers :
          ~validate_port_number(pair_number).valid
              => RejectedFrom(remove_port_pair(M0, pair_number))
    /\ \A port_id \in PortIds, parameters \in ParamStrings :
          ChangeArgsInvalid(port_id, parameters)
              => RejectedFrom(change_port_config(M0, port_id, parameters))
    /\ \A pattern \in Patterns :
          Strip(pattern) = <<>>
              => RejectedFrom(check_busy_names(M0, pattern))

\* C7: a request whose arguments fail validation (install, remove, change,
\* busy names) emits exactly one error, starts no worker and leaves the
\* manager's state and the cached port list unchanged: in every state each
\* operation rejects its invalid arguments so, and every step of a request
\* rejected for its arguments has this effect.
C7_InvalidInputRejected ==
    /\ []InvalidArgsRejected
    /\ [][(last'.act = "request" /\ last'.outcome = "invalid")
            => ValidationRejected]_vars

\* A request was rejected for its arguments.
C7_Witness == last.act = "request" /\ last.outcome = "invalid"

\* C8: the handlers of a command that failed have emitted exactly one error
\* on its account, and a rejected request has emitted exactly one error.
C8_OneErrorPerFailure ==
    /\ (last.act = "callback" /\ ~last.success) => last.errs = 1
    /\ (last.act = "request" /\ last.outcome \in {"busy", "invalid"})
           => Cardinality(ErrorEvents(emitted)) = 1

\* C9: every started worker leads to exactly one command_completed signal
\* for its command, after which the manager is no longer busy with it.
C9_CompletesOnce ==
    /\ [](\A c \in DOMAIN workers :
              /\ workers[c].completed <= 1
              /\ workers[c].deliv >= 1 => workers[c].completed = 1)
    /\ \A c \in Ids :
          (c \in DOMAIN workers /\ workers[c].thread = "exec")
              ~> \/ last.act = "on_command_finished" /\ last.cmd = c
                 \/ c \in DOMAIN workers /\ workers[c].cancelled
    /\ \A c \in Ids :
          (last.act = "on_command_finished" /\ last.cmd = c)
              ~> ~IsRunning(workers, c)

\* The command_completed signal of a command has been emitted and the
\* manager is idle again.
C9_Witness ==
    /\ last.act = "on_command_finished"
    /\ emitted[1].sig = "command_completed"
    /\ ~is_busy

\* C10: the cached port list is the argument of the latest
\* port_list_updated signal, and empty when none was emitted.
C10_CacheIsLastPayload == port_pairs_cache = lastPayload

\* A successful list has stored and emitted a parsed, non-empty list.
C10_Witness ==
    /\ last.act = "callback" /\ last.op = "list_ports" /\ last.success
    /\ port_pairs_cache # <<>>
    /\ emitted = <<Ev("port_list_updated", "", port_pairs_cache)>>

\* The list the completion handler of worker c stores: the parsed output
\* of a list command, nothing after an uninstall.
StoredBy(c) ==
    IF workers[c].callback = "uninstall_driver"
    THEN <<>>
    ELSE parse_port_list(workers[c].result.output).pairs

\* C11: the cached port list changes only in the completion handler of a
\* successful list_ports, which replaces it by the parsed list, or of a
\* successful uninstall_driver, which empties it; every other step leaves it
\* as it is.
C11_CacheChangesOnlyInHandlers ==
    [][port_pairs_cache' # port_pairs_cache
         => /\ last'.act = "callback"
            /\ last'.op \in {"list_ports", "uninstall_driver"}
            /\ last'.success
            /\ port_pairs_cache' = StoredBy(last'.cmd)]_vars

\* The second command was a successful list whose handler has replaced the
\* cache by one parsed pair.
C11_Witness ==
    /\ last.act = "callback" /\ last.op = "list_ports" /\ last.success
    /\ last.cmd = 2
    /\ Len(port_pairs_cache) = 1

\* The completion handler of a successful list command whose output
\* parse_port_list does not parse.
ParseFailureHandled ==
    /\ last'.act = "callback" /\ last'.op = "list_ports" /\ last'.success
    /\ parse_port_list(workers[last'.cmd].result.output).raised

\* C12: when parsing the output of a successful list command fails, the
\* handler finishes having emitted error_occurred and no port_list_updated,
\* and the cached port list is what it was before.
C12_ParseFailureKeepsCache ==
    [][ParseFailureHandled
         => /\ emitted' = <<Ev("error_occurred", "parse", <<>>)>>
            /\ port_pairs_cache' = port_pairs_cache
            /\ lastPayload' = lastPayload]_vars

\* A list whose output did not parse has been handled while a pair parsed
\* earlier is in the cache.
C12_Witness ==
    /\ last.act = "callback" /\ last.op = "list_ports" /\ last.success
    /\ emitted = <<Ev("error_occurred", "parse", <<>>)>>
    /\ port_pairs_cache # <<>>

\* The text t contains the lower-case word w written in any letter case.
ContainsAnyCase(t, w) ==
    \E i \in 1..(Len(t) - Len(w) + 1) :
        \A k \in 1..Len(w) : LowerChar(t[i + k - 1]) = w[k]

\* The driver_status_changed events among the events em, in order.
StatusEvents(em) == SelectSeq(em, LAMBDA e : e.sig = "driver_status_changed")

\* The DriverInfo info is the classification of the probe's result r.
Classifies(info, r) ==
    /\ r.success => info.status = "Installed"
    /\ (~r.success /\ ContainsAnyCase(r.error, S_not_found))
          => info.status = "Not Installed"
    /\ (~r.success /\ ~ContainsAnyCase(r.error, S_not_found))
          => /\ info.status = "Error"
             /\ info.error_message = get_error_message(r)

\* C13: the completion handler of get_driver_status emits exactly one
\* driver_status_changed, whose status is Installed after a successful
\* probe, Not Installed after a failed one whose stderr contains "not found"
\* in any letter case, and Error with the failure's message after any other
\* failure; the generic handler emits none for the probe.
C13_StatusClassified ==
    [][(last'.op = "get_driver_status"
            /\ last'.act \in {"on_command_finished", "callback"})
         => IF last'.act = "callback"
            THEN /\ Len(StatusEvents(emitted')) = 1
                 /\ Classifies(StatusEvents(emitted')[1].arg,
                               workers[last'.cmd].result)
            ELSE StatusEvents(emitted') = <<>>]_vars

\* A probe that failed with "Driver Not Found" on stderr has been
\* classified as Not Installed.
C13_Witness ==
    /\ last.act = "callback" /\ last.op = "get_driver_status" /\ ~last.success
    /\ Len(emitted) = 1
    /\ emitted[1].sig = "driver_status_changed"
    /\ emitted[1].arg.status = "Not Installed"
    /\ emitted[1].arg.error_message = MsgSetupcMissing

\* The port_list_updated events among the events em, in order.
PortListEvents(em) == SelectSeq(em, LAMBDA e : e.sig = "port_list_updated")

\* C14: the completion handler of a successful uninstall leaves the cache
\* empty and has emitted port_list_updated with the empty list, having
\* started no command (the status refresh is only scheduled); the handlers
\* of a failed uninstall leave the cache as it was and emit no
\* port_list_updated.
C14_UninstallClearsOnSuccess ==
    [][(last'.op = "uninstall_driver"
            /\ last'.act \in {"on_command_finished", "callback"})
         => IF last'.act = "callback" /\ last'.success
            THEN /\ port_pairs_cache' = <<>>
                 /\ emitted' = <<Ev("port_list_updated", "", <<>>)>>
                 /\ nextId' = nextId
                 /\ current_worker' = current_worker
                 /\ timers' = timers + 1
            ELSE /\ port_pairs_cache' = port_pairs_cache
                 /\ PortListEvents(emitted') = <<>>
                 /\ timers' = timers]_vars

\* The second command was an uninstall that succeeded: the empty list has
\* been emitted and the status refresh is pending.
C14_Witness ==
    /\ last.act = "callback" /\ last.op = "uninstall_driver" /\ last.success
    /\ last.cmd = 2
    /\ port_pairs_cache = <<>>
    /\ emitted = <<Ev("port_list_updated", "", <<>>)>>
    /\ timers = 1

\* C15: when the delay of a status refresh scheduled by a successful
\* preinstall, update or uninstall expires, the probe whose completion
\* emits driver_status_changed is started, whatever else has been requested
\* or is still running at that moment.  Stated for the expiries at which
\* no completed worker is still waiting for its thread to end, so that only
\* a command that is really executing stands in the way.
C15_RefreshProbeStarts ==
    (last.act = "timer" /\ \A c \in DOMAIN workers : workers[c].thread # "posted")
        => (last.spawned = 1 /\ last.op = "get_driver_status")

\* C16: cancel_current_command returns normally, and when it has the worker
\* is no longer running and the manager is idle: an idle manager is left
\* alone, a busy one has its worker stopped, by the forced termination if
\* the worker outlived the grace period.
C16_CancelLeavesIdle ==
    last.act = "cancel" => (last.outcome \in {"idle", "stopped"} /\ ~is_busy)

\* The step delivers a queued completion call of a worker that
\* cancel_current_command has stopped.
CancelledHandled ==
    /\ last'.act \in {"on_command_finished", "callback"}
    /\ workers[last'.cmd].cancelled
    /\ workers[last'.cmd].stopped

\* C17: the result of a cancelled command is discarded: handling it emits
\* no command_completed, port_list_updated or driver_status_changed, starts
\* no follow-on command, schedules none and leaves the cache unchanged.
C17_CancelledResultDiscarded ==
    [][CancelledHandled
         => /\ \A i \in 1..Len(emitted') : emitted'[i].sig = "error_occurred"
            /\ nextId' = nextId
            /\ timers' = timers
            /\ port_pairs_cache' = port_pairs_cache]_vars

\* The return code reserved for each abnormal end of subprocess.run.
ReservedCode(kind) ==
    CASE kind = "timeout" -> -1 [] kind = "not_found" -> -2 [] kind = "exception" -> -3

\* C18: every CommandResult the worker builds has success exactly when its
\* return code is 0; a timeout gives -1, a missing executable -2 and any
\* other exception -3, each with success false, empty output and a
\* non-empty error; a process that exited gives none of the three codes and
\* has its exit code, stdout and stderr passed on.
C18_ResultCodes ==
    call.fn = "run"
        => /\ ret.success <=> ret.return_code = 0
           /\ call.args.kind # "exit"
                 => /\ ret.return_code = ReservedCode(call.args.kind)
                    /\ ~ret.success
                    /\ ret.output = <<>>
                    /\ ret.error # <<>>
           /\ call.args.kind = "exit"
                 => /\ ret.return_code \notin {-1, -2, -3}
                    /\ ret.output = call.args.out
                    /\ ret.error = call.args.err

\* The result of a process that exited with status -1: the code reported
\* is not the one reserved for the timeout.
C18_Witness ==
    /\ call.fn = "run" /\ call.args.kind = "exit" /\ call.args.status = -1
    /\ ret.return_code = 65535
    /\ ~ret.success

\* C19: for every accepted operation the argument vector given to
\* subprocess.run is the configured path as one argument, then the words of
\* the operation's template, then each value the user supplied as exactly
\* one argument.
C19_ArgvIsPathThenArguments ==
    call.fn = "argv"
        => ret = <<call.args.path>> \o call.args.words \o call.args.values

\* C20: parse_port_list never fails: whatever the text, also with lines
\* that start with CNC and have no or no numeric suffix, it returns a
\* sequence of pairs.
C20_ParserNeverFails ==
    call.fn = "parse_port_list" => ~ret.raised

\* The identifier the data model requires of a side of pair number n.
IdentifierOf(side, number) == <<"C", "N", "C", side>> \o PyStr(number)

\* C21: every pair parse_port_list returns has port_a.identifier equal to
\* "CNCA" followed by the pair's number and port_b.identifier equal to
\* "CNCB" followed by it, for every text on which the parser returns.
C21_PairIdentifiers ==
    (call.fn = "parse_port_list" /\ ~ret.raised)
        => \A i \in 1..Len(ret.pairs) :
              /\ ret.pairs[i].port_a.identifier = IdentifierOf("A", ret.pairs[i].number)
              /\ ret.pairs[i].port_b.identifier = IdentifierOf("B", ret.pairs[i].number)

\* The port of pair on the given side.
SideOf(pair, side) == IF side = "A" THEN pair.port_a ELSE pair.port_b

\* The indices of the lines of ls that name the given side of pair n.
LinesNaming(ls, n, side) ==
    {k \in 1..Len(ls) : ls[k].n = n /\ ls[k].side = side}

\* The last of a non-empty set of indices.
LastOf(ks) == CHOOSE k \in ks : \A j \in ks : j <= k

\* The port carries what the line l says: its identifier, the permissive
\* parse of its parameters, and its PortName value when it has one.
PortCarries(port, l) ==
    /\ port.identifier = <<"C", "N", "C", l.side>> \o PyStr(l.n)
    /\ port.parameters = parse_parameters(l.params)
    /\ K_PortName \in DOMAIN parse_parameters(l.params)
          => port.port_name = parse_parameters(l.params)[K_PortName]

\* C22: for a text of well-formed port lines parse_port_list returns one
\* pair per distinct number, in strictly ascending order of the numbers
\* whatever the order of the lines, each with status Active; a side named on
\* a line carries the parameters of (the last of) its lines and the PortName
\* value among them.
C22_WellFormedLinesParsed ==
    call.fn = "parse_well_formed"
        => /\ ~ret.raised
           /\ {ret.pairs[i].number : i \in 1..Len(ret.pairs)}
                 = {call.args[k].n : k \in 1..Len(call.args)}
           /\ \A i \in 1..Len(ret.pairs) :
                 /\ i > 1 => ret.pairs[i - 1].number < ret.pairs[i].number
                 /\ ret.pairs[i].status = "Active"
                 /\ \A side \in {"A", "B"} :
                       LinesNaming(call.args, ret.pairs[i].number, side) # {}
                         => PortCarries(
                               SideOf(ret.pairs[i], side),
                               call.args[LastOf(LinesNaming(call.args,
                                                ret.pairs[i].number, side))])

\* The four lines CNCB1, CNCA0, CNCB0, CNCA1, the higher pair first, give
\* pair 0 with COM8 and COM9 and then pair 1 with COM# and COM#.
C22_Witness ==
    /\ call.fn = "parse_well_formed"
    /\ Len(call.args) = 4
    /\ call.args[1] = [side |-> "B", n |-> 1, params |-> P_COMhash]
    /\ Len(ret.pairs) = 2
    /\ ret.pairs[1].number = 0
    /\ ret.pairs[1].port_a.port_name = <<"C", "O", "M", "8">>
    /\ ret.pairs[1].port_a.parameters[<<"E", "m", "u", "B", "R">>] = <<"y", "e", "s">>
    /\ ret.pairs[1].port_b.port_name = <<"C", "O", "M", "9">>
    /\ ret.pairs[2].number = 1
    /\ ret.pairs[2].port_a.port_name = <<"C", "O", "M", "#">>
    /\ ret.pairs[2].port_b.port_name = <<"C", "O", "M", "#">>

\* The items of the map that have a non-empty, non-null value.
KeptItems(parameters) ==
    {i \in 1..Len(parameters) :
        parameters[i].value \notin {NoneValue, StrValue(<<>>)}}

\* C23: parsing what was built from a parameter map gives the map
\* restricted to its entries with non-empty, non-null values, with the
\* same keys and the same values (a boolean as its yes/no text); a map
\* without such an entry is built as "-", which parses to the empty map.
C23_ParseBuildRoundTrip ==
    call.fn = "parse_build"
        => /\ DOMAIN ret.parsed = {call.args[i].key : i \in KeptItems(call.args)}
           /\ \A i \in KeptItems(call.args) :
                 ret.parsed[call.args[i].key] = ValueText(call.args[i].value)
           /\ KeptItems(call.args) = {} => ret.built = <<"-">>

\* C24: validate_port_number accepts an integer exactly when it is in
\* 0..999 and validate_command_timeout exactly when it is in 1..600; a
\* rejection comes with a non-empty reason.
C24_RangeValidators ==
    /\ call.fn = "validate_port_number"
          => (ret.valid <=> (0 <= call.args /\ call.args <= 999))
    /\ call.fn = "validate_command_timeout"
          => (ret.valid <=> (1 <= call.args /\ call.args <= 600))
    /\ call.fn \in {"validate_port_number", "validate_command_timeout"}
          => (~ret.valid => ret.error # "")

\* The upper end of the timeout range has been accepted.
C24_Witness ==
    call.fn = "validate_command_timeout" /\ call.args = 600 /\ ret.valid

\* The eleven known pin names.
KnownPins ==
    {<<"r", "r", "t", "s">>,
     <<"l", "r", "t", "s">>,
     <<"r", "d", "t", "r">>,
     <<"l", "d", "t", "r">>,
     <<"r", "o", "u", "t", "1">>,
     <<"l", "o", "u", "t", "1">>,
     <<"r", "o", "u", "t", "2">>,
     <<"l", "o", "u", "t", "2">>,
     <<"r", "o", "p", "e", "n">>,
     <<"l", "o", "p", "e", "n">>,
     <<"o", "n">>}

\* C25: validate_pin_assignment accepts a string exactly when it is one of
\* the eleven pin names, optionally preceded by "!", or the bare string "-"
\* or "*".
C25_PinAssignment ==
    call.fn = "validate_pin_assignment"
        => (ret.valid <=>
              \/ call.args \in KnownPins
              \/ \E pin \in KnownPins : call.args = <<"!">> \o pin
              \/ call.args \in {<<"-">>, <<"*">>})

\* C26: readers of the port cache hold a snapshot: whatever is done to the
\* list get_cached_port_pairs returned or to the list delivered with
\* port_list_updated, the list the cache refers to keeps the content the
\* manager assigned, which is what a later get_cached_port_pairs returns.
C26_ReadersHoldSnapshot ==
    /\ Content(heap, heap.cache) = heap.stored
    /\ heap.returned # 0 => heap.returned # heap.cache
    /\ heap.delivered # 0 => heap.delivered # heap.cache

\* C27: after any sequence of set_timeout calls on the manager and of
\* set_command_timeout, update_config and import_config calls on the
\* configuration, the timeout the manager gives the next worker is an
\* integer in 1..600.
C27_TimeoutInRange == settings.timeout \in 1..600

\* C28: the driver-status probe the main window requests from the handler
\* of the first port_list_updated is accepted, never rejected with the busy
\* error.
C28_StartupProbeAccepted == window.probe # "busy"

\* C29: in the Driver Operations dialog a preinstall, update, reload or
\* uninstall command is started only after the user has answered Yes to the
\* operation's prompt (to both prompts for uninstall); after a No the click
\* starts no command.
C29_DispatchOnlyAfterYes ==
    [][(/\ nextId' # nextId
        /\ workers'[nextId'].callback \in DriverOperations)
        => window'.confirmed]_vars

\* The step is the callback of worker c, and it has emitted a signal or
\* started a follow-on command, now or by a timer.
CallbackActs(c) ==
    /\ workers[c].deliv = 1
    /\ last'.act = "callback"
    /\ last'.cmd = c
    /\ (emitted' # <<>> \/ nextId' # nextId \/ timers' # timers)

\* C30: the command_completed signal of a command is emitted before every
\* signal of its own callback (port_list_updated, driver_status_changed,
\* the operation's error_occurred) and before a follow-on command is
\* started; and the signals of a command are emitted only in steps after
\* the step that started it, so those of a follow-on list come after the
\* command_completed of the command whose callback started it.
C30_CompletedComesFirst ==
    [][/\ \A c \in DOMAIN workers :
             CallbackActs(c) =>
                 /\ workers[c].completed >= 1
                 /\ CompletedEvents(emitted') = 0
       /\ (emitted' # <<>> /\ last'.act \in {"on_command_finished", "callback"})
             => last'.cmd \in DOMAIN workers]_vars

\* The callback of a successful install has started the follow-on list.
C30_Witness ==
    /\ last.act = "callback"
    /\ last.op = "install_port_pair"
    /\ last.spawned = 1
    /\ current_worker \in DOMAIN workers
    /\ workers[current_worker].callback = "list_ports"

====
